---- MODULE Spec2Model ----
(***************************************************************************)
(* Model of the badhints word-guessing puzzle.                             *)
(*                                                                         *)
(*   - PuzzleManager (src/src/client/puzzle.ts): cosineDistance, the       *)
(*     seeded shuffle, the word -> embedding lookup and findHint.          *)
(*   - the server hint handler POST /api/puzzle/hint (src/unnamed/part_000)*)
(*     over the redis keys puzzle:target:<postId>,                         *)
(*     puzzle:player:<postId>:<userId> and puzzle:globalWordIndex, one     *)
(*     action per redis command (each await is a point where another       *)
(*     request may run).                                                   *)
(*   - the client-side variant: handleGuess / saveGameState                *)
(*     (src/unnamed/part_001) with GET /api/puzzle/state and               *)
(*     POST /api/puzzle/save (src/src/server/index.ts).                    *)
(*                                                                         *)
(* Words are sequences of characters.  Embeddings are integer vectors.     *)
(* Distances are fixed-point numbers: the real distance times One.         *)
(***************************************************************************)
EXTENDS Integers, Sequences, FiniteSets, TLC

VARIABLES
    redisTarget,      \* puzzle:target:<postId>   : postId -> target state
    redisPlayer,      \* puzzle:player:<postId>:<userId> : <<postId,userId>> -> player state
    globalWordIndex,  \* puzzle:globalWordIndex (an absent key counts as 0)
    req,              \* the hint requests in flight: slot -> locals of the handler
    started,          \* number of hint requests received so far
    gameState,        \* client variant: the page's gameState (null before initializeGame)
    ui,               \* client variant: what the page shows and whether input is enabled
    saves,            \* client variant: POST /api/puzzle/save requests in flight
    clicks,           \* client variant: number of guesses typed so far
    postTarget,       \* client variant: the word GET /api/puzzle/state names for the post
    initGame,         \* client variant: where initializeGame waits, and what it has fetched
    call,             \* findHint applied to drawn inputs: its arguments and result
    puzzleData,       \* the PuzzleData the PuzzleManager was constructed with
    rotation,         \* shuffleWithSeed and the target selection on drawn inputs
    distCall          \* cosineDistance applied to drawn vectors: arguments and outcome

vars == <<redisTarget, redisPlayer, globalWordIndex, req, started,
          gameState, ui, saves, clicks, postTarget, initGame, call, puzzleData,
          rotation,
          distCall>>

serverVars == <<redisTarget, redisPlayer, globalWordIndex, req, started>>
clientVars == <<gameState, ui, saves, clicks, postTarget, initGame>>

-----------------------------------------------------------------------------
(* Bounds of the model *)

MaxRequests == 2      \* hint requests per behaviour
MaxClicks == 3        \* guesses typed into the client page per behaviour
MaxHistoryLen == 2    \* length of the drawn guessesHistory of a findHint call
MaxHintsLen == 1      \* length of the drawn usedHints of a findHint call
MaxShuffleLen == 3    \* length of the drawn arrays given to shuffleWithSeed
MaxCounter == 7       \* counter values drawn for a shuffled array
MaxVectorLen == 3     \* length of the drawn vectors given to cosineDistance
MaxSerialRequests == 11  \* hint requests per behaviour when served one at a time

-----------------------------------------------------------------------------
(* Program constants *)

MaxGuesses == 10             \* the attempt ceiling
MinDistFromTargetPct == 33   \* 0.33 * D
MinDistFromGuessesPct == 50  \* 0.5 * D
One == 4225                    \* the distance 1.0 in fixed point
RandomScale == 1000000       \* the pseudo-random values are given to 6 decimals
DistanceError == -1          \* cosineDistance threw "Vectors must have the same length"

-----------------------------------------------------------------------------
(* The puzzle data: hint_vocabulary and hint_embeddings, index aligned *)

cat == <<"c", "a", "t">>
dog == <<"d", "o", "g">>
kitten == <<"k", "i", "t", "t", "e", "n">>
puppy == <<"p", "u", "p", "p", "y">>
car == <<"c", "a", "r">>
cart == <<"c", "a", "r", "t">>
at == <<"a", "t">>
bird == <<"b", "i", "r", "d">>
fish == <<"f", "i", "s", "h">>
tree == <<"t", "r", "e", "e">>
lion == <<"l", "i", "o", "n">>
wolf == <<"w", "o", "l", "f">>
unknown == <<"u", "n", "k", "n", "o", "w", "n">>
emptyString == << >>
zebra == <<"z", "e", "b", "r", "a">>   \* a word outside the vocabulary
fortyTwo == <<"4", "2">>               \* the JSON number 42, by its digits

\* the guesses for which typeof guess is not "string"
NonStringGuesses == {fortyTwo}

\* the data as loaded: every word has its embedding
LoadedData ==
    [hint_vocabulary |->
        <<cat, dog, kitten, puppy, car, cart, at, bird, fish, tree, lion, wolf>>,
     hint_embeddings |->
        << <<39, -52>>, <<63, 16>>, <<52, -39>>, <<52, 39>>, <<-63, 16>>, <<-65, 0>>,
           <<0, 0>>, <<0, 65>>, <<25, -60>>, <<33, 56>>, <<-33, 56>>, <<56, 33>> >>]

\* damaged data: the 9th word is the empty string
DataWithEmptyWord ==
    [LoadedData EXCEPT !.hint_vocabulary[9] = emptyString]

\* damaged data: hint_embeddings is one entry short, the last word has none
DataWithEmbeddingMissing ==
    [LoadedData EXCEPT !.hint_embeddings =
        SubSeq(@, 1, Len(LoadedData.hint_vocabulary) - 1)]

hint_vocabulary == puzzleData.hint_vocabulary

hint_embeddings == puzzleData.hint_embeddings

VocabIndices == 1..Len(hint_vocabulary)

Range(s) == {s[i] : i \in DOMAIN s}

-----------------------------------------------------------------------------
(* cosineDistance *)

RECURSIVE SumProducts(_, _, _)
SumProducts(vecA, vecB, i) ==
    IF i > Len(vecA) THEN 0
    ELSE vecA[i] * vecB[i] + SumProducts(vecA, vecB, i + 1)

\* Math.sqrt on the sums of squares the model's vectors produce, all of them
\* perfect squares: the integer square root, by Newton's iteration from n
RECURSIVE SqrtFrom(_, _)
SqrtFrom(n, r) ==
    IF r * r <= n THEN r ELSE SqrtFrom(n, (r + n \div r) \div 2)

Sqrt(n) == IF n = 0 THEN 0 ELSE SqrtFrom(n, n)

\* cosineDistance that computes over the common prefix of vectors of
\* different lengths
cosineDistance_Truncates(vecA, vecB) ==
    LET n == IF Len(vecA) < Len(vecB) THEN Len(vecA) ELSE Len(vecB)
        a == SubSeq(vecA, 1, n)
        b == SubSeq(vecB, 1, n)
        magA == Sqrt(SumProducts(a, a, 1))
        magB == Sqrt(SumProducts(b, b, 1))
    IN  IF magA = 0 \/ magB = 0 THEN One
        ELSE One - (One * SumProducts(a, b, 1)) \div (magA * magB)

\* cosineDistance that takes a zero vector to be at distance 0
cosineDistance_ZeroIsClose(vecA, vecB) ==
    IF Len(vecA) # Len(vecB) THEN DistanceError
    ELSE LET magA == Sqrt(SumProducts(vecA, vecA, 1))
             magB == Sqrt(SumProducts(vecB, vecB, 1))
         IN  IF magA = 0 \/ magB = 0 THEN 0
             ELSE One - (One * SumProducts(vecA, vecB, 1)) \div (magA * magB)

\* DistanceError stands for the thrown Error; otherwise the distance times One
cosineDistance(vecA, vecB) ==
    IF Len(vecA) # Len(vecB) THEN DistanceError
    ELSE LET dotProduct == SumProducts(vecA, vecB, 1)
             magA == Sqrt(SumProducts(vecA, vecA, 1))
             magB == Sqrt(SumProducts(vecB, vecB, 1))
         IN  IF magA = 0 \/ magB = 0 THEN One
             ELSE One - (One * dotProduct) \div (magA * magB)

-----------------------------------------------------------------------------
(* PuzzleManager: constructor, shuffle, lookups *)

\* wordToEmbedding, as the constructor fills it: a later index overwrites an
\* earlier one, an empty word or a missing embedding is skipped
EmbeddingIndices(word) ==
    {i \in VocabIndices :
        hint_vocabulary[i] = word /\ word # emptyString /\ i <= Len(hint_embeddings)}

HasEmbedding(word) == EmbeddingIndices(word) # {}

getEmbedding(word) ==
    hint_embeddings[CHOOSE i \in EmbeddingIndices(word) :
                        \A j \in EmbeddingIndices(word) : j <= i]

\* random(): frac(sin(i) * 10000) for i = 0, 1, 2, ..., times RandomScale
RandomStream ==
    <<0, 709848, 974268, 200080, 975046, 757253, 845018, 865987, 582466, 184852,
      788891, 97934, 270819, 670368, 73556, 878401>>

\* Swap that forgets to write the element held in t
Swap_LosesElement(array, a, b) ==
    [array EXCEPT ![a] = array[b]]

\* t = array[m]; array[m] = array[j]; array[j] = t
Swap(array, a, b) ==
    [array EXCEPT ![a] = array[b], ![b] = array[a]]

\* the loop of shuffleWithSeed over the values random() returns: i counts
\* the calls of random(), m the elements not yet placed (indices here are
\* the code's plus one)
RECURSIVE ShuffleWith(_, _, _, _)
ShuffleWith(random, array, m, i) ==
    IF m = 0 THEN array
    ELSE LET j == (random[i + 1] * m) \div RandomScale
         IN  ShuffleWith(random, Swap(array, m, j + 1), m - 1, i + 1)

\* the loop with the values of Math.sin
ShuffleLoop(array, m, i) == ShuffleWith(RandomStream, array, m, i)

shuffleWithSeed(array) == ShuffleLoop(array, Len(array), 0)

getShuffledVocabulary == shuffleWithSeed(hint_vocabulary)

getVocabulary == hint_vocabulary

-----------------------------------------------------------------------------
(* findHint *)

\* String.prototype.includes
Includes(s, t) ==
    \E i \in 0..(Len(s) - Len(t)) : SubSeq(s, i + 1, i + Len(t)) = t

\* collinearityScores: one score per entry of hint_embeddings
CollinearityScores(guessEmbedding, targetEmbedding) ==
    [idx \in 1..Len(hint_embeddings) |->
        cosineDistance(guessEmbedding, hint_embeddings[idx])
            + cosineDistance(targetEmbedding, hint_embeddings[idx])]

\* SortedIndices with equal scores in reverse vocabulary order
SortedIndices_TiesReversed(scores) ==
    LET Before(a, b) == scores[a] < scores[b] \/ (scores[a] = scores[b] /\ a > b)
        Rank(a) == Cardinality({b \in DOMAIN scores : Before(b, a)}) + 1
    IN  [k \in 1..Len(scores) |-> CHOOSE a \in DOMAIN scores : Rank(a) = k]

\* sortedIndices: Array.prototype.sort is stable, so equal scores keep the
\* vocabulary order
SortedIndices(scores) ==
    LET Before(a, b) == scores[a] < scores[b] \/ (scores[a] = scores[b] /\ a < b)
        Rank(a) == Cardinality({b \in DOMAIN scores : Before(b, a)}) + 1
    IN  [k \in 1..Len(scores) |-> CHOOSE a \in DOMAIN scores : Rank(a) = k]

\* BasicInvalid without the look at usedHints
BasicInvalid_ForgetsUsedHints(hintWord, gs) ==
    \/ hintWord = gs.targetWord
    \/ hintWord \in Range(gs.guessesHistory)

\* "Basic invalidity checks"
BasicInvalid(hintWord, gs) ==
    \/ hintWord = gs.targetWord
    \/ hintWord \in Range(gs.guessesHistory)
    \/ hintWord \in Range(gs.usedHints)

WordsToCheck(gs) == <<gs.targetWord>> \o gs.guessesHistory \o gs.usedHints

\* SubstringCollision that misses a hint contained in a compared word
SubstringCollision_OneWay(hintWord, gs) ==
    \E w \in Range(WordsToCheck(gs)) : Len(w) >= 3 /\ Includes(hintWord, w)

\* "Substring check"
SubstringCollision(hintWord, gs) ==
    \E w \in Range(WordsToCheck(gs)) :
        \/ Len(w) >= 3 /\ Includes(hintWord, w)
        \/ Len(hintWord) >= 3 /\ Includes(w, hintWord)

\* allGuessesEmbeddings: the guesses that have an embedding
AllGuessesEmbeddings(gs) ==
    {getEmbedding(g) : g \in {h \in Range(gs.guessesHistory) : HasEmbedding(h)}}

\* DistanceOk without the distances from the guesses
DistanceOk_IgnoresGuesses(hintEmbedding, guessEmbedding, gs) ==
    100 * cosineDistance(gs.targetEmbedding, hintEmbedding)
        >= MinDistFromTargetPct * cosineDistance(guessEmbedding, gs.targetEmbedding)

\* distanceFromTarget >= 0.33 * D and every distance from a guess >= 0.5 * D
DistanceOk(hintEmbedding, guessEmbedding, gs) ==
    LET D == cosineDistance(guessEmbedding, gs.targetEmbedding)
    IN  /\ 100 * cosineDistance(gs.targetEmbedding, hintEmbedding)
              >= MinDistFromTargetPct * D
        /\ \A emb \in AllGuessesEmbeddings(gs) :
              100 * cosineDistance(emb, hintEmbedding) >= MinDistFromGuessesPct * D

\* a candidate the first loop returns
ConstrainedAccept(idx, guessEmbedding, gs) ==
    /\ idx <= Len(hint_vocabulary)
    /\ hint_vocabulary[idx] # emptyString
    /\ ~BasicInvalid(hint_vocabulary[idx], gs)
    /\ ~SubstringCollision(hint_vocabulary[idx], gs)
    /\ DistanceOk(hint_embeddings[idx], guessEmbedding, gs)

\* a candidate the fallback loop returns
FallbackAccept(idx, gs) ==
    /\ idx <= Len(hint_vocabulary)
    /\ hint_vocabulary[idx] # emptyString
    /\ ~BasicInvalid(hint_vocabulary[idx], gs)
    /\ ~SubstringCollision(hint_vocabulary[idx], gs)

\* the first loop over sortedIndices: the position in sortedIndices of the
\* candidate returned, 0 when the loop ends without returning
RECURSIVE ConstrainedWalk(_, _, _, _)
ConstrainedWalk(sortedIndices, k, guessEmbedding, gs) ==
    IF k > Len(sortedIndices) THEN 0
    ELSE IF ConstrainedAccept(sortedIndices[k], guessEmbedding, gs) THEN k
    ELSE ConstrainedWalk(sortedIndices, k + 1, guessEmbedding, gs)

\* findHint without its fallback loop
FallbackWalk_Skipped(sortedIndices, k, gs) == 0

\* the fallback loop, likewise
RECURSIVE FallbackWalk(_, _, _)
FallbackWalk(sortedIndices, k, gs) ==
    IF k > Len(sortedIndices) THEN 0
    ELSE IF FallbackAccept(sortedIndices[k], gs) THEN k
    ELSE FallbackWalk(sortedIndices, k + 1, gs)

\* findHint with the place its result comes from:
\* "noEmbedding", "constrained", "fallback" or "exhausted"
findHintTraced(guess, gs) ==
    IF ~HasEmbedding(guess) THEN [word |-> unknown, from |-> "noEmbedding"]
    ELSE LET guessEmbedding == getEmbedding(guess)
             sortedIndices ==
                 SortedIndices(CollinearityScores(guessEmbedding, gs.targetEmbedding))
             first == ConstrainedWalk(sortedIndices, 1, guessEmbedding, gs)
             second == FallbackWalk(sortedIndices, 1, gs)
         IN  IF first # 0
             THEN [word |-> hint_vocabulary[sortedIndices[first]], from |-> "constrained"]
             ELSE IF second # 0
             THEN [word |-> hint_vocabulary[sortedIndices[second]], from |-> "fallback"]
             ELSE [word |-> unknown, from |-> "exhausted"]

findHint(guess, gs) == findHintTraced(guess, gs).word

-----------------------------------------------------------------------------
(* findHint applied to drawn game states *)

\* sequences over S of length at most n
SeqsUpTo(S, n) == UNION {[1..k -> S] : k \in 0..n}

VocabularyWords == Range(hint_vocabulary)

\* The words the drawn game states are made of.  As in both callers, the guess
\* is the last element of guessesHistory and differs from the target, and the
\* target is neither an earlier guess nor a hint already given.
DrawnTargets == {cat, car, kitten}
DrawnGuesses == {dog, puppy, cart, zebra}
DrawnWords == {dog, puppy, kitten, car, cart}

\* usedHints of a long session: every vocabulary word but the kept ones
KeepSets ==
    {{dog, puppy, kitten}, {dog, puppy, kitten, cart}, {dog, puppy, kitten, car}}

DepletedHints(keep) ==
    SelectSeq(hint_vocabulary, LAMBDA w : w \notin keep) \o <<unknown>>

DrawnHints(targetWord) ==
    SeqsUpTo((DrawnWords \cup {unknown}) \ {targetWord}, MaxHintsLen)
        \cup {DepletedHints(keep \cup {targetWord}) : keep \in KeepSets}

NoResult == [word |-> emptyString, from |-> "none"]

InitCall ==
    \E targetWord \in DrawnTargets, guess \in DrawnGuesses :
        \E prior \in SeqsUpTo(DrawnWords \ {targetWord}, MaxHistoryLen),
           usedHints \in DrawnHints(targetWord) :
            /\ guess # targetWord
            /\ call = [phase |-> "drawn",
                       guess |-> guess,
                       gs |-> [targetWord |-> targetWord,
                               targetEmbedding |-> getEmbedding(targetWord),
                               guessesHistory |-> Append(prior, guess),
                               usedHints |-> usedHints],
                       result |-> NoResult]

CallFindHint ==
    /\ call.phase = "drawn"
    /\ call' = [call EXCEPT !.phase = "returned",
                            !.result = findHintTraced(call.guess, call.gs)]
    /\ UNCHANGED <<serverVars, clientVars, puzzleData, rotation, distCall>>

-----------------------------------------------------------------------------
(* The server hint handler: POST /api/puzzle/hint *)

Posts == {"p1", "p2"}
Users == {"u1", "u2"}
NoPostId == "undefined"
Slots == {"a", "b"}

\* the requests received: who guesses what on which post
RequestInputs ==
    ({<<"p1", "u1">>} \X {fish, wolf, cat})
        \cup ({<<"p1", "u2">>} \X {fish, cat})
        \cup ({<<"p2", "u1">>} \X {wolf, cat})
        \cup {<<<<NoPostId, "u1">>, fish>>,
              <<<<"p1", "u1">>, emptyString>>,
              <<<<"p1", "u1">>, fortyTwo>>,
              <<<<"p1", "u1">>, zebra>>}

\* the slot a new request's locals are kept in: the first free one
FreeSlot == IF req["a"].pc = "idle" THEN "a" ELSE "b"

\* redis.set on a key-value map. Values are stored as JSON text and parsed on
\* redis.get; on these records JSON.parse(JSON.stringify(x)) gives x back, and
\* a solved field that is absent stays absent.
Put(store, key, value) ==
    [k \in DOMAIN store \cup {key} |-> IF k = key THEN value ELSE store[k]]

EmptyStore == [k \in {} |-> {}]

\* the key puzzle:player:<postId>:<userId>
PlayerKey(postId, userId) == <<postId, userId>>

NewPlayerState == [guessesHistory |-> << >>, usedHints |-> << >>]

\* playerState.solved is truthy (the field is optional)
Solved(playerState) == "solved" \in DOMAIN playerState /\ playerState.solved

\* MarkSolved that leaves the flag unset
MarkSolved_FlagNotSet(playerState) ==
    [guessesHistory |-> playerState.guessesHistory,
     usedHints |-> playerState.usedHints]

\* playerState.solved = true (lines 102, 116)
MarkSolved(playerState) ==
    [guessesHistory |-> playerState.guessesHistory,
     usedHints |-> playerState.usedHints,
     solved |-> TRUE]

NoTargetState == [targetWord |-> emptyString, targetEmbedding |-> << >>]
NoResponse == [status |-> 0, body |-> [none |-> TRUE]]
NoHintCall == [made |-> FALSE, usedHints |-> << >>, hint |-> emptyString, from |-> "none"]

IdleRequest ==
    [pc |-> "idle", postId |-> NoPostId, userId |-> "u1", guess |-> emptyString,
     wordIndex |-> 0, targetState |-> NoTargetState, playerState |-> NewPlayerState,
     hintCall |-> NoHintCall, out |-> NoResponse, res |-> NoResponse]

ErrorResponse(status, error) == [status |-> status, body |-> [error |-> error]]

AlreadyCompleted(targetWord) ==
    [status |-> 200,
     body |-> [isGameOver |-> TRUE,
               message |-> [text |-> "You have already completed this puzzle!",
                            word |-> targetWord]]]

Won(tries) ==
    [status |-> 200,
     body |-> [correct |-> TRUE, isGameOver |-> TRUE,
               message |-> [text |-> "Congratulations!", tries |-> tries]]]

Lost(targetWord) ==
    [status |-> 200,
     body |-> [correct |-> FALSE, isGameOver |-> TRUE,
               message |-> [text |-> "You've used all 10 guesses!",
                            word |-> targetWord]]]

HintGiven(hint, guessesRemaining) ==
    [status |-> 200,
     body |-> [correct |-> FALSE, isGameOver |-> FALSE, hint |-> hint,
               guessesRemaining |-> guessesRemaining]]

\* OutOfGuesses that ends the game one guess early
OutOfGuesses_OneTooFew(playerState) == Len(playerState.guessesHistory) >= MaxGuesses - 1

\* OutOfGuesses with the ceiling off by one
OutOfGuesses_OneTooMany(playerState) == Len(playerState.guessesHistory) > MaxGuesses

\* "Check for a loss (out of guesses)", after the push
OutOfGuesses(playerState) == Len(playerState.guessesHistory) >= MaxGuesses

\* SubmitGuess without the check for a completed puzzle
SubmitGuess_NoSolvedCheck(l) ==
    LET pushed == [l.playerState EXCEPT !.guessesHistory = Append(@, l.guess)]
    IN  IF l.guess = l.targetState.targetWord
        THEN [l EXCEPT !.pc = "setPlayer",
                       !.playerState = MarkSolved(pushed),
                       !.out = Won(Len(pushed.guessesHistory))]
        ELSE [l EXCEPT !.pc = "setPlayer",
                       !.playerState = MarkSolved(pushed),
                       !.out = Lost(l.targetState.targetWord)]

\* SubmitGuess that gives the hint without recording it in usedHints
SubmitGuess_HintNotRecorded(l) ==
    IF Solved(l.playerState)
    THEN [l EXCEPT !.pc = "done", !.res = AlreadyCompleted(l.targetState.targetWord)]
    ELSE LET pushed == [l.playerState EXCEPT !.guessesHistory = Append(@, l.guess)]
         IN  IF l.guess = l.targetState.targetWord
             THEN [l EXCEPT !.pc = "setPlayer",
                            !.playerState = MarkSolved(pushed),
                            !.out = Won(Len(pushed.guessesHistory))]
             ELSE IF OutOfGuesses(pushed)
             THEN [l EXCEPT !.pc = "setPlayer",
                            !.playerState = MarkSolved(pushed),
                            !.out = Lost(l.targetState.targetWord)]
             ELSE LET gs == [targetWord |-> l.targetState.targetWord,
                             targetEmbedding |-> l.targetState.targetEmbedding,
                             guessesHistory |-> pushed.guessesHistory,
                             usedHints |-> pushed.usedHints]
                      found == findHintTraced(l.guess, gs)
                      hint == findHint(l.guess, gs)
                  IN  [l EXCEPT !.pc = "setPlayer",
                                !.playerState = pushed,
                                !.hintCall = [made |-> TRUE,
                                              usedHints |-> pushed.usedHints,
                                              hint |-> hint,
                                              from |-> found.from],
                                !.out = HintGiven(hint,
                                            MaxGuesses - Len(pushed.guessesHistory))]

\* The handler from the parsed playerState to the redis.set it awaits next
\* (or to its response, when it writes nothing): l is the request's locals
SubmitGuess(l) ==
    IF Solved(l.playerState)
    THEN [l EXCEPT !.pc = "done", !.res = AlreadyCompleted(l.targetState.targetWord)]
    ELSE LET pushed == [l.playerState EXCEPT !.guessesHistory = Append(@, l.guess)]
         IN  IF l.guess = l.targetState.targetWord
             THEN [l EXCEPT !.pc = "setPlayer",
                            !.playerState = MarkSolved(pushed),
                            !.out = Won(Len(pushed.guessesHistory))]
             ELSE IF OutOfGuesses(pushed)
             THEN [l EXCEPT !.pc = "setPlayer",
                            !.playerState = MarkSolved(pushed),
                            !.out = Lost(l.targetState.targetWord)]
             ELSE LET gs == [targetWord |-> l.targetState.targetWord,
                             targetEmbedding |-> l.targetState.targetEmbedding,
                             guessesHistory |-> pushed.guessesHistory,
                             usedHints |-> pushed.usedHints]
                      found == findHintTraced(l.guess, gs)
                      hint == findHint(l.guess, gs)
                  IN  [l EXCEPT !.pc = "setPlayer",
                                !.playerState =
                                    [pushed EXCEPT !.usedHints = Append(@, hint)],
                                !.hintCall = [made |-> TRUE,
                                              usedHints |-> pushed.usedHints,
                                              hint |-> hint,
                                              from |-> found.from],
                                !.out = HintGiven(hint,
                                            MaxGuesses - Len(pushed.guessesHistory))]

\* Receive without the look into the vocabulary
Receive_NoVocabularyCheck(r, postId, userId, guess) ==
    /\ req[r].pc = "idle"
    /\ started < MaxRequests
    /\ started' = started + 1
    /\ LET l == [IdleRequest EXCEPT !.postId = postId, !.userId = userId,
                                    !.guess = guess]
       IN  req' = [req EXCEPT ![r] =
                IF postId = NoPostId
                THEN [l EXCEPT !.pc = "done",
                               !.res = ErrorResponse(400, "postId is required")]
                ELSE IF guess = emptyString \/ guess \in NonStringGuesses
                THEN [l EXCEPT !.pc = "done",
                               !.res = ErrorResponse(400, "Guess must be a non-empty string.")]
                ELSE [l EXCEPT !.pc = "getTarget"]]
    /\ UNCHANGED <<redisTarget, redisPlayer, globalWordIndex, clientVars, call, puzzleData, rotation, distCall>>

\* lines 30-44: the request is received and validated
Receive(r, postId, userId, guess) ==
    /\ req[r].pc = "idle"
    /\ started < MaxRequests
    /\ started' = started + 1
    /\ LET l == [IdleRequest EXCEPT !.postId = postId, !.userId = userId,
                                    !.guess = guess]
       IN  req' = [req EXCEPT ![r] =
                IF postId = NoPostId
                THEN [l EXCEPT !.pc = "done",
                               !.res = ErrorResponse(400, "postId is required")]
                ELSE IF guess = emptyString \/ guess \in NonStringGuesses
                THEN [l EXCEPT !.pc = "done",
                               !.res = ErrorResponse(400, "Guess must be a non-empty string.")]
                ELSE IF guess \notin Range(getVocabulary)
                THEN [l EXCEPT !.pc = "done",
                               !.res = ErrorResponse(400, "Word not in vocabulary.")]
                ELSE [l EXCEPT !.pc = "getTarget"]]
    /\ UNCHANGED <<redisTarget, redisPlayer, globalWordIndex, clientVars, call, puzzleData, rotation, distCall>>

\* line 48: redis.get(puzzle:target:<postId>)
GetTarget(r) ==
    /\ req[r].pc = "getTarget"
    /\ req' = [req EXCEPT ![r] =
            IF req[r].postId \in DOMAIN redisTarget
            THEN [@ EXCEPT !.pc = "getPlayer",
                           !.targetState = redisTarget[req[r].postId]]
            ELSE [@ EXCEPT !.pc = "incrBy"]]
    /\ UNCHANGED <<redisTarget, redisPlayer, globalWordIndex, started, clientVars, call, puzzleData, rotation, distCall>>

\* IncrBy that goes on to the player state when the target cannot be set up
IncrBy_SwallowsFailure(r) ==
    /\ req[r].pc = "incrBy"
    /\ globalWordIndex' = globalWordIndex + 1
    /\ LET wordIndex == globalWordIndex + 1
           shuffledVocab == getShuffledVocabulary
           position == (wordIndex % Len(shuffledVocab)) + 1
           targetWord == shuffledVocab[position]
       IN  req' = [req EXCEPT ![r] =
                IF targetWord = emptyString
                THEN [@ EXCEPT !.pc = "getPlayer", !.wordIndex = wordIndex,
                               !.res = ErrorResponse(500, "Could not select a target word.")]
                ELSE IF ~HasEmbedding(targetWord)
                THEN [@ EXCEPT !.pc = "getPlayer", !.wordIndex = wordIndex,
                               !.res = ErrorResponse(500,
                                           "Could not find embedding for target word.")]
                ELSE [@ EXCEPT !.pc = "setTarget", !.wordIndex = wordIndex,
                               !.targetState =
                                   [targetWord |-> targetWord,
                                    targetEmbedding |-> getEmbedding(targetWord)]]]
    /\ UNCHANGED <<redisTarget, redisPlayer, started, clientVars, call, puzzleData, rotation, distCall>>

\* lines 50-65: redis.incrBy(puzzle:globalWordIndex, 1) and the choice of the target
IncrBy(r) ==
    /\ req[r].pc = "incrBy"
    /\ globalWordIndex' = globalWordIndex + 1
    /\ LET wordIndex == globalWordIndex + 1
           shuffledVocab == getShuffledVocabulary
           position == (wordIndex % Len(shuffledVocab)) + 1
           targetWord == shuffledVocab[position]
       IN  req' = [req EXCEPT ![r] =
                IF targetWord = emptyString
                THEN [@ EXCEPT !.pc = "done", !.wordIndex = wordIndex,
                               !.res = ErrorResponse(500, "Could not select a target word.")]
                ELSE IF ~HasEmbedding(targetWord)
                THEN [@ EXCEPT !.pc = "done", !.wordIndex = wordIndex,
                               !.res = ErrorResponse(500,
                                           "Could not find embedding for target word.")]
                ELSE [@ EXCEPT !.pc = "setTarget", !.wordIndex = wordIndex,
                               !.targetState =
                                   [targetWord |-> targetWord,
                                    targetEmbedding |-> getEmbedding(targetWord)]]]
    /\ UNCHANGED <<redisTarget, redisPlayer, started, clientVars, call, puzzleData, rotation, distCall>>

\* line 66: redis.set(puzzle:target:<postId>, newTargetState)
SetTarget(r) ==
    /\ req[r].pc = "setTarget"
    /\ redisTarget' = Put(redisTarget, req[r].postId, req[r].targetState)
    /\ req' = [req EXCEPT ![r].pc = "getPlayer"]
    /\ UNCHANGED <<redisPlayer, globalWordIndex, started, clientVars, call, puzzleData, rotation, distCall>>

\* line 71: redis.get(puzzle:player:<postId>:<userId>); with a stored state
\* the handler runs on to the redis.set of its branch
GetPlayer(r) ==
    /\ req[r].pc = "getPlayer"
    /\ LET key == PlayerKey(req[r].postId, req[r].userId)
       IN  req' = [req EXCEPT ![r] =
                IF key \in DOMAIN redisPlayer
                THEN SubmitGuess([@ EXCEPT !.playerState = redisPlayer[key]])
                ELSE [@ EXCEPT !.pc = "newPlayer"]]
    /\ UNCHANGED <<redisTarget, redisPlayer, globalWordIndex, started, clientVars, call, puzzleData, rotation, distCall>>

\* lines 73-78: redis.set of the new player state; the handler then runs on
NewPlayer(r) ==
    /\ req[r].pc = "newPlayer"
    /\ redisPlayer' = Put(redisPlayer, PlayerKey(req[r].postId, req[r].userId),
                          NewPlayerState)
    /\ req' = [req EXCEPT ![r] = SubmitGuess([@ EXCEPT !.playerState = NewPlayerState])]
    /\ UNCHANGED <<redisTarget, globalWordIndex, started, clientVars, call, puzzleData, rotation, distCall>>

\* lines 103, 117, 135: redis.set of the mutated player state, then res.json
SetPlayer(r) ==
    /\ req[r].pc = "setPlayer"
    /\ redisPlayer' = Put(redisPlayer, PlayerKey(req[r].postId, req[r].userId),
                          req[r].playerState)
    /\ req' = [req EXCEPT ![r].pc = "done", ![r].res = req[r].out]
    /\ UNCHANGED <<redisTarget, globalWordIndex, started, clientVars, call, puzzleData, rotation, distCall>>

\* the response has been sent: the handler's locals are gone
Close(r) ==
    /\ req[r].pc = "done"
    /\ req' = [req EXCEPT ![r] = IdleRequest]
    /\ UNCHANGED <<redisTarget, redisPlayer, globalWordIndex, started, clientVars, call, puzzleData, rotation, distCall>>

-----------------------------------------------------------------------------
(* The client-side variant: the page of one player on one post, with       *)
(* GET /api/puzzle/state and POST /api/puzzle/save                         *)

ClientPost == "p1"
ClientUser == "u1"
ClientGuessInputs == {cat, wolf, at, dog, emptyString, zebra}

NullGameState == [null |-> TRUE]
IsNull(gs) == "null" \in DOMAIN gs

Message(text, class) == [text |-> text, class |-> class]

\* GET /api/puzzle/state: the stored player state, or the default of a new player
StatePlayerState(postId, userId) ==
    IF PlayerKey(postId, userId) \in DOMAIN redisPlayer
    THEN redisPlayer[PlayerKey(postId, userId)]
    ELSE [guessesHistory |-> << >>, usedHints |-> << >>, solved |-> FALSE]

\* updateUI on the page as it is: the first two branches set the text and
\* the class of the message and disable the input and the button; the last
\* sets the text only
updateUI(gs, page) ==
    IF gs.solved
    THEN [page EXCEPT !.message = Message("You already solved this!", "success"),
                      !.disabled = TRUE]
    ELSE IF MaxGuesses - Len(gs.guessesHistory) <= 0
    THEN [page EXCEPT !.message = Message("You are out of guesses.", "error"),
                      !.disabled = TRUE]
    ELSE [page EXCEPT !.message = Message("Guess a word to start or continue the puzzle!",
                                          page.message.class)]

\* no response of GET /api/puzzle/state has arrived
NoServerState ==
    [targetWord |-> emptyString,
     playerState |-> [guessesHistory |-> << >>, usedHints |-> << >>, solved |-> FALSE]]

\* the page has loaded: the listeners are registered (lines 202-207),
\* initializeGame was called (line 209) and waits for the puzzle data (line 39)
PageLoaded ==
    [pc |-> "fetchData", puzzleManager |-> FALSE, serverState |-> NoServerState]

\* line 39: the response to fetch("/puzzle_data.json.gz") arrives;
\* initializeGame goes on to await its body (line 43)
FetchPuzzleData ==
    /\ initGame.pc = "fetchData"
    /\ initGame' = [initGame EXCEPT !.pc = "readData"]
    /\ UNCHANGED <<gameState, ui, saves, clicks, postTarget, serverVars, call,
                   puzzleData, rotation, distCall>>

\* lines 43-54: the data is inflated and parsed, puzzleManager is set and
\* the request for the puzzle state is sent
CreatePuzzleManager ==
    /\ initGame.pc = "readData"
    /\ initGame' = [initGame EXCEPT !.pc = "fetchState", !.puzzleManager = TRUE]
    /\ UNCHANGED <<gameState, ui, saves, clicks, postTarget, serverVars, call,
                   puzzleData, rotation, distCall>>

\* GET /api/puzzle/state (index.ts:49-84) serves the request of line 54: the
\* session is read from redis here; initializeGame goes on to await the
\* body (line 58)
GetPuzzleState ==
    /\ initGame.pc = "fetchState"
    /\ initGame' = [initGame EXCEPT
                        !.pc = "readState",
                        !.serverState =
                            [targetWord |-> postTarget,
                             playerState |-> StatePlayerState(ClientPost, ClientUser)]]
    /\ UNCHANGED <<gameState, ui, saves, clicks, postTarget, serverVars, call,
                   puzzleData, rotation, distCall>>

\* initializeGame from line 58 on: gameState is built from the response and
\* the game container is shown; a target without an embedding fails the
\* initialization
InitializeGame ==
    /\ initGame.pc = "readState"
    /\ initGame' = [initGame EXCEPT !.pc = "done"]
    /\ LET targetWord == initGame.serverState.targetWord
           playerState == initGame.serverState.playerState
       IN  IF HasEmbedding(targetWord)
           THEN LET gs == [targetWord |-> targetWord,
                           targetEmbedding |-> getEmbedding(targetWord),
                           guessesHistory |-> playerState.guessesHistory,
                           usedHints |-> playerState.usedHints,
                           solved |-> playerState.solved]
                IN  /\ gameState' = gs
                    /\ ui' = [updateUI(gs, ui) EXCEPT !.shown = TRUE]
           ELSE /\ gameState' = gameState
                /\ ui' = [ui EXCEPT
                              !.message = Message("Failed to load puzzle data. Please refresh.",
                                                  "error"),
                              !.shown = TRUE]
    /\ UNCHANGED <<saves, clicks, postTarget, serverVars, call, puzzleData, rotation, distCall>>

\* the body saveGameState posts
SaveBody(gs) ==
    [guessesHistory |-> gs.guessesHistory, usedHints |-> gs.usedHints,
     solved |-> gs.solved]

\* handleGuess on an initialized game, the guess trimmed and lower-cased:
\* the new gameState, the message shown, whether saveGameState is called,
\* and whether the input is left disabled
handleGuess(gs, guess) ==
    IF guess \in Range(gs.guessesHistory)
    THEN [gameState |-> gs, save |-> FALSE, disabled |-> FALSE, hinted |-> FALSE,
          message |-> Message("You have already guessed this word.", "hint")]
    ELSE IF ~HasEmbedding(guess)
    THEN [gameState |-> gs, save |-> FALSE, disabled |-> gs.solved, hinted |-> FALSE,
          message |-> Message("I don't know that word.", "error")]
    ELSE IF guess = gs.targetWord
    THEN [gameState |-> [gs EXCEPT !.solved = TRUE], save |-> TRUE, disabled |-> TRUE,
          hinted |-> FALSE,
          message |-> Message("You got it!", "success")]
    ELSE LET pushed == [gs EXCEPT !.guessesHistory = Append(@, guess)]
             remainingGuesses == MaxGuesses - Len(pushed.guessesHistory)
         IN  IF remainingGuesses <= 0
             THEN [gameState |-> pushed, save |-> TRUE, disabled |-> pushed.solved,
                   hinted |-> FALSE,
                   message |-> Message("You are out of guesses.", "error")]
             ELSE LET hint == findHint(guess, pushed)
                      hinted == [pushed EXCEPT !.usedHints = Append(@, hint)]
                  IN  [gameState |-> hinted, save |-> TRUE, disabled |-> hinted.solved,
                       hinted |-> TRUE,
                       message |-> Message("Hint", "hint")]

\* a click on the guess button, or Enter in the guess input
HandleGuess(guess) ==
    /\ ~ui.disabled
    /\ clicks < MaxClicks
    /\ clicks' = clicks + 1
    /\ IF IsNull(gameState) \/ ~initGame.puzzleManager
       THEN /\ ui' = [ui EXCEPT !.message = Message("Game is not initialized.",
                                                     ui.message.class)]
            /\ UNCHANGED <<gameState, saves>>
       ELSE IF guess = emptyString
       THEN UNCHANGED <<gameState, ui, saves>>
       ELSE LET done == handleGuess(gameState, guess)
            IN  /\ gameState' = done.gameState
                /\ ui' = [ui EXCEPT !.message = done.message,
                                    !.disabled = done.disabled]
                /\ saves' = IF done.save
                            THEN saves \cup {SaveBody(done.gameState)}
                            ELSE saves
    /\ UNCHANGED <<postTarget, initGame, serverVars, call, puzzleData, rotation, distCall>>

\* POST /api/puzzle/save: the posted state replaces the stored one
SavePuzzleState(body) ==
    /\ body \in saves
    /\ saves' = saves \ {body}
    /\ redisPlayer' = Put(redisPlayer, PlayerKey(ClientPost, ClientUser),
                          [guessesHistory |-> body.guessesHistory,
                           usedHints |-> body.usedHints,
                           solved |-> body.solved])
    /\ UNCHANGED <<gameState, ui, clicks, postTarget, initGame, redisTarget,
                   globalWordIndex, req, started, call, puzzleData, rotation, distCall>>

-----------------------------------------------------------------------------
(* Initial states and specifications *)

\* the hint handler run to its end on one guess, nothing else in between
ServeAlone(targetState, playerState, guess) ==
    SubmitGuess([IdleRequest EXCEPT !.guess = guess, !.targetState = targetState,
                                    !.playerState = playerState]).playerState

\* the stored state after each of the guesses was served in turn
RECURSIVE PlayServer(_, _, _)
PlayServer(targetState, playerState, guesses) ==
    IF guesses = << >> THEN playerState
    ELSE PlayServer(targetState, ServeAlone(targetState, playerState, Head(guesses)),
                    Tail(guesses))

\* the page's gameState after each of the guesses was typed in turn
RECURSIVE PlayClient(_, _)
PlayClient(gs, guesses) ==
    IF guesses = << >> THEN gs
    ELSE PlayClient(handleGuess(gs, Head(guesses)).gameState, Tail(guesses))

\* the target of the first post served: counter value 1
FirstTargetState ==
    LET shuffledVocab == getShuffledVocabulary
        targetWord == shuffledVocab[(1 % Len(shuffledVocab)) + 1]
    IN  [targetWord |-> targetWord, targetEmbedding |-> getEmbedding(targetWord)]

\* guesses a player made before the behaviour starts (none is the target)
EarlierGuesses == <<cat, dog, kitten, puppy, car, tree, lion, bird, cat>>
EarlierLengths == {8, 9}

\* the hints the handler gave to those guesses, served one at a time
EarlierHints == <<kitten, at, puppy, lion, bird, wolf, unknown, unknown, unknown>>

\* the stored session after the first k of the earlier guesses
EarlierPlayerState(k) ==
    [guessesHistory |-> SubSeq(EarlierGuesses, 1, k),
     usedHints |-> SubSeq(EarlierHints, 1, k)]

ClientTarget == cat
ClientEarlierGuesses == <<dog, kitten, puppy, car, tree, lion, bird, fish, cart>>

\* the hints the page showed for those guesses
ClientEarlierHints == <<at, fish, lion, bird, wolf, unknown, unknown, unknown, unknown>>

\* the session the page saved after the first k of its earlier guesses
ClientEarlierSave(k) ==
    [guessesHistory |-> SubSeq(ClientEarlierGuesses, 1, k),
     usedHints |-> SubSeq(ClientEarlierHints, 1, k),
     solved |-> FALSE]

\* a new game on the client's post
NewClientGame ==
    [targetWord |-> ClientTarget, targetEmbedding |-> getEmbedding(ClientTarget),
     guessesHistory |-> << >>, usedHints |-> << >>, solved |-> FALSE]

IdleClient ==
    /\ gameState = NullGameState
    /\ ui = [shown |-> FALSE, message |-> Message("", "none"), disabled |-> FALSE]
    /\ saves = {}
    /\ clicks = 0
    /\ postTarget = ClientTarget
    /\ initGame = PageLoaded

IdleServer ==
    /\ req = [r \in Slots |-> IdleRequest]
    /\ started = 0

IdleRotation ==
    rotation = [phase |-> "none", vocabulary |-> << >>, random |-> << >>,
                shuffled |-> << >>, counter |-> 0, targets |-> << >>]

IdleDistCall ==
    distCall = [phase |-> "none", vecA |-> << >>, vecB |-> << >>,
                threw |-> FALSE, value |-> 0]

IdleCall ==
    call = [phase |-> "none", guess |-> emptyString,
            gs |-> [targetWord |-> emptyString, targetEmbedding |-> << >>,
                    guessesHistory |-> << >>, usedHints |-> << >>],
            result |-> NoResult]

\* the earlier sessions are the ones the loaded data produces: the handler,
\* and the page, run on the earlier guesses one at a time
EarlierSessionsWereServed ==
    puzzleData = LoadedData =>
        \A k \in EarlierLengths :
            /\ EarlierPlayerState(k)
                  = PlayServer(FirstTargetState, NewPlayerState,
                               SubSeq(EarlierGuesses, 1, k))
            /\ ClientEarlierSave(k)
                  = SaveBody(PlayClient(NewClientGame, SubSeq(ClientEarlierGuesses, 1, k)))

\* the store is empty, or player u1 has played some guesses on post p1,
\* one request at a time
InitServerStore ==
    \/ /\ redisTarget = EmptyStore
       /\ redisPlayer = EmptyStore
       /\ globalWordIndex = 0
    \/ \E k \in EarlierLengths :
        /\ redisTarget = Put(EmptyStore, "p1", FirstTargetState)
        /\ redisPlayer = Put(EmptyStore, PlayerKey("p1", "u1"), EarlierPlayerState(k))
        /\ globalWordIndex = 1

Init ==
    /\ puzzleData = LoadedData
    /\ InitServerStore
    /\ IdleServer
    /\ IdleClient
    /\ IdleCall
    /\ IdleRotation
    /\ IdleDistCall

Next ==
    \/ \E input \in RequestInputs :
          Receive(FreeSlot, input[1][1], input[1][2], input[2])
    \/ \E r \in Slots : GetTarget(r)
    \/ \E r \in Slots : IncrBy(r)
    \/ \E r \in Slots : SetTarget(r)
    \/ \E r \in Slots : GetPlayer(r)
    \/ \E r \in Slots : NewPlayer(r)
    \/ \E r \in Slots : SetPlayer(r)
    \/ \E r \in Slots : Close(r)

Spec == Init /\ [][Next]_vars

\* the hint handler over an empty store, the PuzzleManager constructed with
\* damaged data
InitSetup ==
    /\ puzzleData \in {DataWithEmptyWord, DataWithEmbeddingMissing}
    /\ redisTarget = EmptyStore
    /\ redisPlayer = EmptyStore
    /\ globalWordIndex = 0
    /\ IdleServer
    /\ IdleClient
    /\ IdleCall
    /\ IdleRotation
    /\ IdleDistCall

SpecSetup == InitSetup /\ [][Next]_vars

\* the requests received when the handler serves one request at a time: two
\* players of post p1, wrong guesses, the target and a word outside the
\* vocabulary
SerialInputs ==
    ({<<"p1", "u1">>} \X {fish, wolf, cat})
        \cup ({<<"p1", "u2">>} \X {fish, cat})
        \cup {<<<<"p1", "u1">>, zebra>>}

\* lines 30-44 for a request that arrives when no other request is in flight
ReceiveSerial(postId, userId, guess) ==
    /\ \A r \in Slots : req[r].pc = "idle"
    /\ started < MaxSerialRequests
    /\ started' = started + 1
    /\ LET l == [IdleRequest EXCEPT !.postId = postId, !.userId = userId,
                                    !.guess = guess]
       IN  req' = [req EXCEPT ![FreeSlot] =
                IF postId = NoPostId
                THEN [l EXCEPT !.pc = "done",
                               !.res = ErrorResponse(400, "postId is required")]
                ELSE IF guess = emptyString \/ guess \in NonStringGuesses
                THEN [l EXCEPT !.pc = "done",
                               !.res = ErrorResponse(400, "Guess must be a non-empty string.")]
                ELSE IF guess \notin Range(getVocabulary)
                THEN [l EXCEPT !.pc = "done",
                               !.res = ErrorResponse(400, "Word not in vocabulary.")]
                ELSE [l EXCEPT !.pc = "getTarget"]]
    /\ UNCHANGED <<redisTarget, redisPlayer, globalWordIndex, clientVars, call, puzzleData, rotation, distCall>>

\* the hint handler over an empty store, every request served to its end
\* before the next one arrives
InitSerial ==
    /\ puzzleData = LoadedData
    /\ redisTarget = EmptyStore
    /\ redisPlayer = EmptyStore
    /\ globalWordIndex = 0
    /\ IdleServer
    /\ IdleClient
    /\ IdleCall
    /\ IdleRotation
    /\ IdleDistCall

NextSerial ==
    \/ \E input \in SerialInputs :
          ReceiveSerial(input[1][1], input[1][2], input[2])
    \/ \E r \in Slots : GetTarget(r)
    \/ \E r \in Slots : IncrBy(r)
    \/ \E r \in Slots : SetTarget(r)
    \/ \E r \in Slots : GetPlayer(r)
    \/ \E r \in Slots : NewPlayer(r)
    \/ \E r \in Slots : SetPlayer(r)
    \/ \E r \in Slots : Close(r)

SpecSerial == InitSerial /\ [][NextSerial]_vars

\* the client-side variant: the page's earlier session, if any, was saved
InitClient ==
    /\ puzzleData = LoadedData
    /\ redisTarget = EmptyStore
    /\ globalWordIndex = 0
    /\ IdleServer
    /\ IdleCall
    /\ IdleRotation
    /\ IdleDistCall
    /\ gameState = NullGameState
    /\ ui = [shown |-> FALSE, message |-> Message("", "none"), disabled |-> FALSE]
    /\ saves = {}
    /\ clicks = 0
    /\ initGame = PageLoaded
    /\ postTarget \in {ClientTarget, zebra}
    /\ \/ redisPlayer = EmptyStore
       \/ \E k \in EarlierLengths :
            /\ postTarget = ClientTarget
            /\ redisPlayer =
                 Put(EmptyStore, PlayerKey(ClientPost, ClientUser), ClientEarlierSave(k))

NextClient ==
    \/ FetchPuzzleData
    \/ CreatePuzzleManager
    \/ GetPuzzleState
    \/ InitializeGame
    \/ \E guess \in ClientGuessInputs : HandleGuess(guess)
    \/ \E body \in saves : SavePuzzleState(body)

SpecClient == InitClient /\ [][NextClient]_vars

\* findHint on drawn game states
InitHint ==
    /\ puzzleData = LoadedData
    /\ redisTarget = EmptyStore
    /\ redisPlayer = EmptyStore
    /\ globalWordIndex = 0
    /\ IdleServer
    /\ IdleClient
    /\ InitCall
    /\ IdleRotation
    /\ IdleDistCall

NextHint == CallFindHint

SpecHint == InitHint /\ [][NextHint]_vars

\* shuffleWithSeed on drawn arrays and drawn values of random(), and the
\* target selection on the shuffled array for the counter values 1, 2, ...
ShuffleWords == {cat, dog, car}
RandomValues == {0, 500000, 999999}

DrawnArrays ==
    UNION {[1..n -> ShuffleWords] : n \in 1..MaxShuffleLen} \cup {LoadedData.hint_vocabulary}

\* the values random() returns during the shuffle of array: drawn ones for
\* the short arrays, and those of Math.sin
DrawnRandoms(array) ==
    IF Len(array) <= MaxShuffleLen
    THEN [1..Len(array) -> RandomValues] \cup {RandomStream}
    ELSE {RandomStream}

InitRotation ==
    \E array \in DrawnArrays :
        \E random \in DrawnRandoms(array) :
            /\ rotation = [phase |-> "loaded", vocabulary |-> array, random |-> random,
                           shuffled |-> << >>, counter |-> 0, targets |-> << >>]

\* puzzle.ts:66-67: the copy of the vocabulary is shuffled
ShuffleVocabulary ==
    /\ rotation.phase = "loaded"
    /\ rotation' = [rotation EXCEPT
            !.phase = "shuffled",
            !.shuffled = ShuffleWith(rotation.random, rotation.vocabulary,
                                     Len(rotation.vocabulary), 0)]
    /\ UNCHANGED <<serverVars, clientVars, call, puzzleData, distCall>>

\* part_000:50-52: the counter is incremented and selects the target
SelectTarget ==
    /\ rotation.phase = "shuffled"
    /\ rotation.counter < MaxCounter
    /\ LET wordIndex == rotation.counter + 1
           shuffledVocab == rotation.shuffled
           targetWord == shuffledVocab[(wordIndex % Len(shuffledVocab)) + 1]
       IN  rotation' = [rotation EXCEPT !.counter = wordIndex,
                                        !.targets = Append(@, targetWord)]
    /\ UNCHANGED <<serverVars, clientVars, call, puzzleData, distCall>>

InitShuffle ==
    /\ puzzleData = LoadedData
    /\ redisTarget = EmptyStore
    /\ redisPlayer = EmptyStore
    /\ globalWordIndex = 0
    /\ IdleServer
    /\ IdleClient
    /\ IdleCall
    /\ InitRotation
    /\ IdleDistCall

NextShuffle == ShuffleVocabulary \/ SelectTarget

SpecShuffle == InitShuffle /\ [][NextShuffle]_vars

\* cosineDistance on drawn vectors: of norm 0, 5, 13 or 65, so that Math.sqrt
\* and the division are exact
VectorPool ==
    {<< >>,
     <<5>>, <<-13>>, <<0>>,
     <<0, 0>>, <<3, 4>>, <<-4, 3>>, <<5, 12>>, <<12, -5>>, <<39, -52>>,
     <<0, 0, 0>>, <<3, 4, 0>>, <<12, 4, 3>>, <<0, -5, 0>>, <<4, 0, -3>>,
     <<0, 0, 0, 0>>, <<3, 4, 0, 0>>, <<12, 0, 3, 4>>, <<0, 0, 0, -65>>}

DrawnVectors == {v \in VectorPool : Len(v) <= MaxVectorLen}

InitDistCall ==
    \E vecA \in DrawnVectors, vecB \in DrawnVectors :
        distCall = [phase |-> "drawn", vecA |-> vecA, vecB |-> vecB,
                    threw |-> FALSE, value |-> 0]

\* the call: it throws, or it returns a distance
CallCosineDistance ==
    /\ distCall.phase = "drawn"
    /\ LET result == cosineDistance(distCall.vecA, distCall.vecB)
       IN  distCall' = [distCall EXCEPT !.phase = "returned",
                                        !.threw = (result = DistanceError),
                                        !.value = result]
    /\ UNCHANGED <<serverVars, clientVars, call, puzzleData, rotation>>

InitDistance ==
    /\ puzzleData = LoadedData
    /\ redisTarget = EmptyStore
    /\ redisPlayer = EmptyStore
    /\ globalWordIndex = 0
    /\ IdleServer
    /\ IdleClient
    /\ IdleCall
    /\ IdleRotation
    /\ InitDistCall

NextDistance == CallCosineDistance

SpecDistance == InitDistance /\ [][NextDistance]_vars

-----------------------------------------------------------------------------
(* Claims *)

\* the game state a request's call of findHint was made on
HintCallMade(r) == req[r].hintCall.made

HintIsFresh(r) ==
    /\ req[r].hintCall.hint # req[r].targetState.targetWord
    /\ req[r].hintCall.hint \notin Range(req[r].playerState.guessesHistory)
    /\ req[r].hintCall.hint \notin Range(req[r].hintCall.usedHints)

\* C1, as stated: every result of findHint in the hint handler, the sentinel
\* "unknown" included, is not the target, not a word of guessesHistory and
\* not a word of the usedHints it was called with.
C1_EveryResultIsFresh ==
    \A r \in Slots : HintCallMade(r) => HintIsFresh(r)

\* C1, amended: every word findHint returns from its constrained pass or its
\* fallback pass is not the target, not a word of guessesHistory and not a
\* word of usedHints; the sentinel of an exhausted search is exempt.
C1_PassResultIsFresh ==
    \A r \in Slots :
        HintCallMade(r) /\ req[r].hintCall.from \in {"constrained", "fallback"}
            => HintIsFresh(r)

\* C1 witness: a pass of findHint returned a word to a session that already
\* had a guess and a hint
C1_Witness ==
    \E r \in Slots :
        /\ HintCallMade(r)
        /\ req[r].hintCall.from \in {"constrained", "fallback"}
        /\ Len(req[r].hintCall.usedHints) >= 1
        /\ Len(req[r].playerState.guessesHistory) >= 2

\* request r reads the player state and finds the puzzle completed
ReadsSolved(r) ==
    /\ req[r].pc = "getPlayer"
    /\ req'[r].pc # "getPlayer"
    /\ PlayerKey(req[r].postId, req[r].userId) \in DOMAIN redisPlayer
    /\ Solved(redisPlayer[PlayerKey(req[r].postId, req[r].userId)])

\* C2: a guess on a session that is already solved leaves the stored
\* guessesHistory and usedHints as they are, computes no hint and is answered
\* with the already-completed outcome naming the target word, whatever the
\* guess.
C2_TerminalSessionIsFrozen ==
    [][\A r \in Slots :
          ReadsSolved(r) =>
              /\ redisPlayer' = redisPlayer
              /\ req'[r].pc = "done"
              /\ req'[r].res = AlreadyCompleted(req[r].targetState.targetWord)
              /\ req'[r].res.body.isGameOver
              /\ ~req'[r].hintCall.made
      ]_vars

\* C2 witness: a guess equal to the target was answered "already completed"
C2_Witness ==
    \E r \in Slots :
        /\ req[r].pc = "done"
        /\ req[r].guess = req[r].targetState.targetWord
        /\ req[r].res = AlreadyCompleted(req[r].targetState.targetWord)
        /\ Solved(redisPlayer[PlayerKey(req[r].postId, req[r].userId)])

\* C3: once the page's guessesHistory has 10 guesses, a further guess is
\* not appended, gets no hint and cannot win.
C3_TenGuessesAreTerminal ==
    [][(~IsNull(gameState) /\ Len(gameState.guessesHistory) >= MaxGuesses)
          => /\ gameState'.guessesHistory = gameState.guessesHistory
             /\ gameState'.usedHints = gameState.usedHints
             /\ gameState'.solved = gameState.solved
      ]_vars

\* C4: once a stored session has solved = true, it never again has solved
\* false or absent, whatever requests follow or overlap.
C4_SolvedIsMonotonic ==
    [][\A key \in DOMAIN redisPlayer :
          Solved(redisPlayer[key]) => Solved(redisPlayer'[key])
      ]_vars

\* request r has written the session with its guess and has answered
Answered(r) == req[r].pc = "done" /\ "correct" \in DOMAIN req[r].res.body

IsPrefix(s, t) == Len(s) <= Len(t) /\ SubSeq(t, 1, Len(s)) = s

\* C5: when two guesses of one player on one post have both been written,
\* the stored session is that of one of the two serial orders: it is the
\* later request's state, whose guessesHistory is the earlier request's
\* followed by the later guess, and whose usedHints extend the earlier's.
C5_NoLostUpdate ==
    \A r1, r2 \in Slots :
        (/\ r1 # r2
         /\ Answered(r1) /\ Answered(r2)
         /\ req[r1].postId = req[r2].postId
         /\ req[r1].userId = req[r2].userId)
        => \E first, second \in {r1, r2} :
              /\ first # second
              /\ redisPlayer[PlayerKey(req[r1].postId, req[r1].userId)]
                    = req[second].playerState
              /\ req[second].playerState.guessesHistory
                    = Append(req[first].playerState.guessesHistory, req[second].guess)
              /\ IsPrefix(req[first].playerState.usedHints,
                          req[second].playerState.usedHints)

\* C6: a target stored for a post never changes.
C6_TargetIsImmutable ==
    [][\A postId \in DOMAIN redisTarget :
          redisTarget'[postId] = redisTarget[postId]
      ]_vars

\* no request is between its first and its last redis command
Quiescent == \A r \in Slots : req[r].pc \in {"idle", "done"}

\* C7: with no request in progress, the counter equals the number of posts
\* that have a stored target.
C7_CounterCountsInstances ==
    Quiescent => globalWordIndex = Cardinality(DOMAIN redisTarget)

\* request r reads an unsolved session of 9 guesses and its guess is wrong
ReadsNinthWrong(r) ==
    /\ req[r].pc = "getPlayer"
    /\ req'[r].pc # "getPlayer"
    /\ PlayerKey(req[r].postId, req[r].userId) \in DOMAIN redisPlayer
    /\ ~Solved(redisPlayer[PlayerKey(req[r].postId, req[r].userId)])
    /\ Len(redisPlayer[PlayerKey(req[r].postId, req[r].userId)].guessesHistory)
          = MaxGuesses - 1
    /\ req[r].guess # req[r].targetState.targetWord

\* request r writes the state it has computed and answers
Writes(r) == req[r].pc = "setPlayer" /\ req'[r].pc = "done"

\* C8: a wrong guess on an unsolved session of 9 guesses appends the guess
\* (10 guesses), marks the session solved, appends no hint and computes
\* none, and the request then stores that state and answers correct = false,
\* isGameOver = true with the target word in the message.
C8_TenthWrongGuessLoses ==
    [][\A r \in Slots :
          LET key == PlayerKey(req[r].postId, req[r].userId)
          IN  /\ ReadsNinthWrong(r) =>
                    /\ req'[r].pc = "setPlayer"
                    /\ req'[r].playerState.guessesHistory
                          = Append(redisPlayer[key].guessesHistory, req[r].guess)
                    /\ Len(req'[r].playerState.guessesHistory) = MaxGuesses
                    /\ Solved(req'[r].playerState)
                    /\ req'[r].playerState.usedHints = redisPlayer[key].usedHints
                    /\ ~req'[r].hintCall.made
                    /\ req'[r].out = Lost(req[r].targetState.targetWord)
              /\ (Writes(r) /\ req[r].out = Lost(req[r].targetState.targetWord)) =>
                    /\ redisPlayer'[key] = req[r].playerState
                    /\ req'[r].res.body.correct = FALSE
                    /\ req'[r].res.body.isGameOver = TRUE
                    /\ req'[r].res.body.message.word = req[r].targetState.targetWord
      ]_vars

\* C8 witness: the 10th wrong guess has been answered and stored
C8_Witness ==
    \E r \in Slots :
        /\ req[r].pc = "done"
        /\ req[r].res = Lost(req[r].targetState.targetWord)
        /\ Len(redisPlayer[PlayerKey(req[r].postId, req[r].userId)].guessesHistory)
              = MaxGuesses
        /\ Solved(redisPlayer[PlayerKey(req[r].postId, req[r].userId)])

\* request r reads an unsolved session (or has just created it) and its
\* guess is the target
ReadsWinningGuess(r) ==
    /\ req[r].pc \in {"getPlayer", "newPlayer"}
    /\ req'[r].pc = "setPlayer"
    /\ req[r].guess = req[r].targetState.targetWord

\* C9, in the hint handler: a guess equal to the target on an unsolved
\* session, at any attempt count, is appended, marks the session solved,
\* computes no hint and is answered correct = true, isGameOver = true with
\* the number of guesses made; on the 10th guess the win comes before the loss.
C9_ServerWinIsImmediate ==
    [][\A r \in Slots :
          ReadsWinningGuess(r) =>
              /\ Solved(req'[r].playerState)
              /\ req'[r].playerState.guessesHistory[Len(req'[r].playerState.guessesHistory)]
                    = req[r].guess
              /\ ~req'[r].hintCall.made
              /\ req'[r].out = Won(Len(req'[r].playerState.guessesHistory))
      ]_vars

\* C9, in the client page: a guess equal to the target on an unsolved
\* session is recorded, so that the number of attempts is the length of
\* guessesHistory after the append.
C9_WinIsRecorded ==
    [][(/\ ~IsNull(gameState)
        /\ ~gameState.solved
        /\ Len(gameState.guessesHistory) < MaxGuesses
        /\ gameState'.solved)
          => gameState'.guessesHistory
                = Append(gameState.guessesHistory, gameState.targetWord)
      ]_vars

\* the claim's own reading of the exclusions and the distance constraints
Collides(w, x) ==
    /\ Includes(w, x) \/ Includes(x, w)
    /\ Len(w) >= 3
    /\ Len(x) >= 3

MeetsConstraints(w, guess, gs) ==
    LET D == cosineDistance(getEmbedding(guess), gs.targetEmbedding)
    IN  /\ w \in VocabularyWords
        /\ w # gs.targetWord
        /\ w \notin Range(gs.guessesHistory)
        /\ w \notin Range(gs.usedHints)
        /\ \A x \in {gs.targetWord} \cup Range(gs.guessesHistory)
                  \cup Range(gs.usedHints) : ~Collides(w, x)
        /\ 100 * cosineDistance(gs.targetEmbedding, getEmbedding(w)) >= 33 * D
        /\ \A g \in Range(gs.guessesHistory) :
              HasEmbedding(g) => 2 * cosineDistance(getEmbedding(g), getEmbedding(w)) >= D

\* C10: when some vocabulary word passes the exclusions and is at least
\* 0.33 * D from the target and at least 0.5 * D from every guess, findHint
\* returns such a word, and returns it from the constrained pass.
C10_ConstrainedCandidateWins ==
    (/\ call.phase = "returned"
     /\ HasEmbedding(call.guess)
     /\ \E w \in VocabularyWords : MeetsConstraints(w, call.guess, call.gs))
    => /\ MeetsConstraints(call.result.word, call.guess, call.gs)
       /\ call.result.from = "constrained"

\* C10 witness: the constrained pass returned a word although some words
\* that pass the exclusions are too close to the target or to a guess
C10_Witness ==
    /\ call.phase = "returned"
    /\ call.result.from = "constrained"
    /\ Len(call.gs.guessesHistory) >= 2
    /\ Len(call.gs.usedHints) >= 1
    /\ \E idx \in VocabIndices :
          /\ FallbackAccept(idx, call.gs)
          /\ ~MeetsConstraints(hint_vocabulary[idx], call.guess, call.gs)

\* the words a hint is compared with
ComparedWords(gs) ==
    {gs.targetWord} \cup Range(gs.guessesHistory) \cup Range(gs.usedHints)

\* C11: a word returned by the constrained pass or by the fallback pass of
\* findHint neither contains nor is contained in the target, a guess or a
\* used hint, when the shorter of the two words has at least 3 characters.
C11_NoSubstringCollision ==
    (call.phase = "returned" /\ call.result.from \in {"constrained", "fallback"})
        => \A x \in ComparedWords(call.gs) : ~Collides(call.result.word, x)

\* a vocabulary word that only the substring check keeps from being returned
\* and that is ranked before the word returned
SkippedForSubstring(idx, guess, gs) ==
    LET scores == CollinearityScores(getEmbedding(guess), gs.targetEmbedding)
        returned == CHOOSE i \in VocabIndices :
                        hint_vocabulary[i] = findHint(guess, gs)
    IN  /\ ~BasicInvalid(hint_vocabulary[idx], gs)
        /\ SubstringCollision(hint_vocabulary[idx], gs)
        /\ scores[idx] < scores[returned]

\* C11 witness: the constrained pass returned a word after skipping a better
\* ranked word that is contained in a guess
C11_Witness ==
    /\ call.phase = "returned"
    /\ call.result.from = "constrained"
    /\ \E idx \in VocabIndices :
          /\ SkippedForSubstring(idx, call.guess, call.gs)
          /\ \E x \in ComparedWords(call.gs) :
                x # hint_vocabulary[idx] /\ Includes(x, hint_vocabulary[idx])

\* the fallback pass returned a word after skipping a better ranked word that
\* collides
C11_FallbackWitness ==
    /\ call.phase = "returned"
    /\ call.result.from = "fallback"
    /\ \E idx \in VocabIndices : SkippedForSubstring(idx, call.guess, call.gs)

\* the identity, history and substring rules, as the claim words them
PassesRules(w, gs) ==
    /\ w \in VocabularyWords
    /\ w # gs.targetWord
    /\ w \notin Range(gs.guessesHistory)
    /\ w \notin Range(gs.usedHints)
    /\ \A x \in ComparedWords(gs) : ~Collides(w, x)

\* C12: for a guess that has an embedding, findHint returns "unknown" exactly
\* when no vocabulary word passes the identity, history and substring rules,
\* and when some word passes them, a word that passes them is returned.
C12_SentinelOnlyWhenExhausted ==
    (call.phase = "returned" /\ HasEmbedding(call.guess))
        => /\ (call.result.word = unknown)
                 <=> (\A w \in VocabularyWords : ~PassesRules(w, call.gs))
           /\ (\E w \in VocabularyWords : PassesRules(w, call.gs))
                 => PassesRules(call.result.word, call.gs)

\* C12 witness: the search is exhausted although a vocabulary word is neither
\* the target nor a guess nor a used hint: its substring collision excludes it
C12_Witness ==
    /\ call.phase = "returned"
    /\ HasEmbedding(call.guess)
    /\ call.result = [word |-> unknown, from |-> "exhausted"]
    /\ \E idx \in VocabIndices : ~BasicInvalid(hint_vocabulary[idx], call.gs)

\* the fallback pass returned the only word that passes the rules
C12_LastWordWitness ==
    /\ call.phase = "returned"
    /\ call.result.from = "fallback"
    /\ Cardinality({w \in VocabularyWords : PassesRules(w, call.gs)}) = 1

\* the request that takes the step, as it is after being received
ActingRequest(r) == IF req[r].pc = "idle" THEN req'[r] ELSE req[r]

\* the step is one of request r alone
StepOf(r) ==
    /\ req'[r] # req[r]
    /\ \A q \in Slots \ {r} : req'[q] = req[q]

\* the store keeps key with its value, or keeps it absent
KeyUnchanged(store, storeAfter, key) ==
    IF key \in DOMAIN store
    THEN key \in DOMAIN storeAfter /\ storeAfter[key] = store[key]
    ELSE key \notin DOMAIN storeAfter

\* C13: every step of a hint request by player P on post I leaves the stored
\* session of every other (post, player) pair and the stored target of every
\* other post as they are, and changes the counter or the stored target of I
\* only when no target is stored for I; whatever other requests are in
\* progress.
C13_SessionsAreIndependent ==
    [][\E r \in Slots :
          /\ StepOf(r)
          /\ \A key \in (Posts \X Users) \ {<<ActingRequest(r).postId,
                                              ActingRequest(r).userId>>} :
                KeyUnchanged(redisPlayer, redisPlayer', key)
          /\ \A postId \in Posts \ {ActingRequest(r).postId} :
                KeyUnchanged(redisTarget, redisTarget', postId)
          /\ (\/ globalWordIndex' # globalWordIndex
              \/ ~KeyUnchanged(redisTarget, redisTarget', ActingRequest(r).postId))
                => ActingRequest(r).postId \notin DOMAIN redisTarget
      ]_vars

\* a guess the handler must reject
InvalidGuess(guess) ==
    \/ guess = emptyString
    \/ guess \in NonStringGuesses
    \/ guess \notin VocabularyWords

StoreUnchanged ==
    /\ redisTarget' = redisTarget
    /\ redisPlayer' = redisPlayer
    /\ globalWordIndex' = globalWordIndex

\* C14: a request whose guess is empty, not a string or not in the
\* vocabulary is answered with an error (status 400) at once, without a call
\* of findHint, and neither that step nor any later step of the request
\* changes a target, the counter or a player session.
C14_InvalidGuessIsRejected ==
    [][\A r \in Slots :
          /\ (req[r].pc = "idle" /\ req'[r].pc # "idle" /\ InvalidGuess(req'[r].guess))
                => /\ req'[r].pc = "done"
                   /\ req'[r].res.status = 400
                   /\ "error" \in DOMAIN req'[r].res.body
                   /\ ~req'[r].hintCall.made
                   /\ StoreUnchanged
          /\ (InvalidGuess(req[r].guess) /\ req[r].pc # "idle" /\ req'[r] # req[r])
                => /\ req[r].pc = "done"
                   /\ StoreUnchanged
      ]_vars

\* C14 witness: a guess outside the vocabulary on a post that has no target
\* was answered "Word not in vocabulary." and the store is still empty
C14_Witness ==
    \E r \in Slots :
        /\ req[r].pc = "done"
        /\ req[r].guess = zebra
        /\ req[r].res = ErrorResponse(400, "Word not in vocabulary.")
        /\ redisTarget = EmptyStore
        /\ redisPlayer = EmptyStore
        /\ globalWordIndex = 0

\* a guess that is not a string was answered with the non-empty-string error
C14_NonStringWitness ==
    \E r \in Slots :
        /\ req[r].pc = "done"
        /\ req[r].guess = fortyTwo
        /\ req[r].res = ErrorResponse(400, "Guess must be a non-empty string.")

\* the word the lazy initialization selects when the counter is at its
\* present value
WordSelectedNext ==
    getShuffledVocabulary[((globalWordIndex + 1) % Len(getShuffledVocabulary)) + 1]

\* request r draws a word index and the word selected is empty or has no
\* embedding
SetupFails(r) ==
    /\ req[r].pc = "incrBy"
    /\ req'[r].pc # "incrBy"
    /\ WordSelectedNext = emptyString \/ ~HasEmbedding(WordSelectedNext)

\* request r has been answered with a server error
SetupFailed(r) == req[r].pc = "done" /\ req[r].res.status = 500

\* C15: when the word selected for a new post is empty or has no embedding,
\* the request is answered with an error (status 500) at once; that step
\* stores no target and touches no player session, the guess is not pushed
\* and no hint is computed, and the request takes no further step that
\* changes the store (it does not draw a second word).
C15_SetupFailureIsSurfaced ==
    [][\A r \in Slots :
          /\ SetupFails(r)
                => /\ req'[r].pc = "done"
                   /\ req'[r].res.status = 500
                   /\ "error" \in DOMAIN req'[r].res.body
                   /\ redisTarget' = redisTarget
                   /\ redisPlayer' = redisPlayer
                   /\ req'[r].playerState.guessesHistory = << >>
                   /\ ~req'[r].hintCall.made
          /\ (SetupFailed(r) /\ req'[r] # req[r])
                => /\ req'[r].pc = "idle"
                   /\ StoreUnchanged
      ]_vars

\* C15 witness: the second post's word has no embedding; its request was
\* answered with the error, the post has no target and its player no
\* session, while the first post keeps its target
C15_Witness ==
    \E r \in Slots :
        /\ SetupFailed(r)
        /\ req[r].res = ErrorResponse(500, "Could not find embedding for target word.")
        /\ req[r].postId = "p2"
        /\ DOMAIN redisTarget = {"p1"}
        /\ <<"p2", "u1">> \notin DOMAIN redisPlayer
        /\ globalWordIndex = 2

\* the word selected is the empty string: no word is selected
C15_NoWordWitness ==
    \E r \in Slots :
        /\ SetupFailed(r)
        /\ req[r].res = ErrorResponse(500, "Could not select a target word.")
        /\ req[r].postId \notin DOMAIN redisTarget
        /\ redisPlayer = EmptyStore

\* the number of times w occurs in seq
Count(w, seq) == Cardinality({i \in DOMAIN seq : seq[i] = w})

\* the same words with the same multiplicities
IsPermutation(a, b) ==
    /\ Len(a) = Len(b)
    /\ \A w \in Range(a) \cup Range(b) : Count(w, a) = Count(w, b)

\* C16: whatever values in [0,1) random() returns, the shuffled array is a
\* permutation of the vocabulary; the target selected for counter value c is
\* shuffled[c mod n], also for c >= n; and every n consecutive counter values
\* select a permutation of the vocabulary, each word once when the words are
\* distinct.
C16_RotationCoversVocabulary ==
    rotation.phase = "shuffled" =>
        LET n == Len(rotation.vocabulary)
        IN  /\ IsPermutation(rotation.shuffled, rotation.vocabulary)
            /\ \A c \in 1..Len(rotation.targets) :
                  rotation.targets[c] = rotation.shuffled[(c % n) + 1]
            /\ \A first \in 1..(Len(rotation.targets) - n + 1) :
                  /\ IsPermutation(SubSeq(rotation.targets, first, first + n - 1),
                                   rotation.vocabulary)
                  /\ Cardinality(Range(rotation.vocabulary)) = n
                        => \A w \in Range(rotation.vocabulary) :
                              Count(w, SubSeq(rotation.targets, first, first + n - 1)) = 1

\* C16 witness: three distinct words were shuffled into another order and the
\* counter has gone twice round the shuffled array
C16_Witness ==
    /\ rotation.phase = "shuffled"
    /\ Len(rotation.vocabulary) = 3
    /\ Cardinality(Range(rotation.vocabulary)) = 3
    /\ rotation.shuffled # rotation.vocabulary
    /\ rotation.counter >= 2 * Len(rotation.vocabulary)

\* the loaded vocabulary was shuffled with the values of Math.sin, as the
\* PuzzleManager shuffles it
C16_LoadedDataWitness ==
    /\ rotation.phase = "shuffled"
    /\ rotation.vocabulary = LoadedData.hint_vocabulary
    /\ rotation.shuffled = getShuffledVocabulary
    /\ rotation.shuffled # rotation.vocabulary
    /\ rotation.counter = MaxCounter

\* the distances cosineDistance can return, in fixed point: 0 to 2
DistanceValues == 0..(2 * One)

\* C17: cosineDistance on two vectors of different lengths throws; it does
\* not return a distance, whether that of the vectors cut to the shorter
\* length or any other.
C17_LengthMismatchThrows ==
    (distCall.phase = "returned" /\ Len(distCall.vecA) # Len(distCall.vecB))
        => /\ distCall.threw
           /\ distCall.value \notin DistanceValues

\* C17 witness: the call threw on a vector and the same vector with a zero
\* added, which cut to the shorter length would be at distance 0
C17_Witness ==
    /\ distCall.phase = "returned"
    /\ distCall.threw
    /\ Len(distCall.vecA) = 2
    /\ distCall.vecB = Append(distCall.vecA, 0)
    /\ cosineDistance(distCall.vecA, distCall.vecA) = 0

IsZeroVector(v) == \A i \in DOMAIN v : v[i] = 0

\* C18: cosineDistance on two vectors of the same length, one or both of
\* them all zero, returns exactly 1 and does not throw.
C18_ZeroVectorIsAtDistanceOne ==
    (/\ distCall.phase = "returned"
     /\ Len(distCall.vecA) = Len(distCall.vecB)
     /\ IsZeroVector(distCall.vecA) \/ IsZeroVector(distCall.vecB))
    => /\ ~distCall.threw
       /\ distCall.value = One

\* C18 witness: the second vector is all zero and the first is not
C18_Witness ==
    /\ distCall.phase = "returned"
    /\ distCall.value = One
    /\ Len(distCall.vecA) = 3
    /\ ~IsZeroVector(distCall.vecA)
    /\ distCall.vecB = <<0, 0, 0>>

\* both vectors are all zero
C18_BothZeroWitness ==
    /\ distCall.phase = "returned"
    /\ distCall.value = One
    /\ distCall.vecA = <<0, 0>>
    /\ distCall.vecB = <<0, 0>>

\* request r has the player state in hand and runs on from the check for a
\* completed puzzle; PriorState is that player state
HasPlayerState(r) ==
    \/ req[r].pc = "newPlayer"
    \/ /\ req[r].pc = "getPlayer"
       /\ PlayerKey(req[r].postId, req[r].userId) \in DOMAIN redisPlayer

PriorState(r) ==
    IF req[r].pc = "newPlayer" THEN NewPlayerState
    ELSE redisPlayer[PlayerKey(req[r].postId, req[r].userId)]

\* the guess of request r is wrong and is not the last one allowed
WrongNonFinalGuess(r) ==
    /\ HasPlayerState(r)
    /\ req'[r] # req[r]
    /\ ~Solved(PriorState(r))
    /\ req[r].guess # req[r].targetState.targetWord
    /\ Len(PriorState(r).guessesHistory) + 1 < MaxGuesses

\* C19: a wrong guess that leaves fewer than 10 guesses in an unsolved
\* session appends the guess and exactly one hint, the result of findHint on
\* the target and the session with the guess appended; the session is not
\* marked solved; the response, sent once that state is stored, has
\* correct = false, isGameOver = false, that hint, and
\* guessesRemaining = 10 - len(guessesHistory), a number from 1 to 9.
C19_WrongGuessGetsOneHint ==
    [][\A r \in Slots :
          LET prior == PriorState(r)
              guesses == Append(prior.guessesHistory, req[r].guess)
              hint == findHint(req[r].guess,
                               [targetWord |-> req[r].targetState.targetWord,
                                targetEmbedding |-> req[r].targetState.targetEmbedding,
                                guessesHistory |-> guesses,
                                usedHints |-> prior.usedHints])
          IN  /\ WrongNonFinalGuess(r) =>
                    /\ req'[r].pc = "setPlayer"
                    /\ req'[r].playerState.guessesHistory = guesses
                    /\ req'[r].playerState.usedHints = Append(prior.usedHints, hint)
                    /\ ~Solved(req'[r].playerState)
                    /\ req'[r].out.status = 200
                    /\ req'[r].out.body.correct = FALSE
                    /\ req'[r].out.body.isGameOver = FALSE
                    /\ req'[r].out.body.hint = hint
                    /\ req'[r].out.body.guessesRemaining = MaxGuesses - Len(guesses)
                    /\ req'[r].out.body.guessesRemaining \in 1..9
              /\ (Writes(r) /\ ~req[r].out.body.isGameOver) =>
                    /\ redisPlayer'[PlayerKey(req[r].postId, req[r].userId)]
                          = req[r].playerState
                    /\ req'[r].res = req[r].out
      ]_vars

\* C19 witness: the 9th guess of a session was wrong: it is stored with its
\* hint, 9 guesses and 9 hints, unsolved, and was answered with one guess
\* remaining
C19_Witness ==
    \E r \in Slots :
        /\ req[r].pc = "done"
        /\ req[r].res.status = 200
        /\ "guessesRemaining" \in DOMAIN req[r].res.body
        /\ req[r].res.body.guessesRemaining = 1
        /\ LET stored == redisPlayer[PlayerKey(req[r].postId, req[r].userId)]
           IN  /\ Len(stored.guessesHistory) = MaxGuesses - 1
               /\ Len(stored.usedHints) = MaxGuesses - 1
               /\ stored.usedHints[MaxGuesses - 1] = req[r].res.body.hint
               /\ ~Solved(stored)

\* the first guess of a new session was wrong and was answered with 9
\* guesses remaining
C19_FirstGuessWitness ==
    \E r \in Slots :
        /\ req[r].pc = "done"
        /\ req[r].res.status = 200
        /\ "guessesRemaining" \in DOMAIN req[r].res.body
        /\ req[r].res.body.guessesRemaining = MaxGuesses - 1
        /\ req[r].res.body.hint # unknown

\* the vocabulary index of a word findHint returned from one of its passes
IndexOf(word) == CHOOSE idx \in VocabIndices : hint_vocabulary[idx] = word

\* idx passes the checks of the pass the result of the call came from
AcceptedInPass(idx) ==
    IF call.result.from = "constrained"
    THEN ConstrainedAccept(idx, getEmbedding(call.guess), call.gs)
    ELSE FallbackAccept(idx, call.gs)

\* the collinearity scores of the call
CallScores ==
    CollinearityScores(getEmbedding(call.guess), call.gs.targetEmbedding)

\* C20: the word findHint returns from a pass is the first acceptable one in
\* ascending order of score: every word that passes the checks of that pass
\* has a higher score, or the same score and no lower vocabulary index.
C20_FirstAcceptableInScoreOrder ==
    (call.phase = "returned" /\ call.result.from \in {"constrained", "fallback"})
        => /\ AcceptedInPass(IndexOf(call.result.word))
           /\ \A idx \in VocabIndices :
                 AcceptedInPass(idx) =>
                     \/ CallScores[idx] > CallScores[IndexOf(call.result.word)]
                     \/ /\ CallScores[idx] = CallScores[IndexOf(call.result.word)]
                        /\ idx >= IndexOf(call.result.word)

\* C20 witness: the word returned has the same score as another acceptable
\* word, which stands later in the vocabulary
C20_Witness ==
    /\ call.phase = "returned"
    /\ call.result.from \in {"constrained", "fallback"}
    /\ \E idx \in VocabIndices :
          /\ AcceptedInPass(idx)
          /\ idx > IndexOf(call.result.word)
          /\ CallScores[idx] = CallScores[IndexOf(call.result.word)]

\* the word returned is not the one of lowest score: words of lower score
\* were passed over, and acceptable words of higher score were not taken
C20_PassedOverWitness ==
    /\ call.phase = "returned"
    /\ call.result.from = "constrained"
    /\ \E idx \in VocabIndices :
          /\ ~AcceptedInPass(idx)
          /\ hint_vocabulary[idx] \notin {call.guess, call.gs.targetWord}
          /\ CallScores[idx] < CallScores[IndexOf(call.result.word)]
    /\ \E idx \in VocabIndices :
          /\ AcceptedInPass(idx)
          /\ CallScores[idx] > CallScores[IndexOf(call.result.word)]

-----------------------------------------------------------------------------
(* C21, C22: the sessions stored when requests are served one at a time *)

\* the stored sessions: post and player of each puzzle:player key
StoredSessions == DOMAIN redisPlayer

\* the target word stored for the post of a session
TargetOf(key) == redisTarget[key[1]].targetWord

\* the session is terminal by a win: its last recorded guess is the target
SessionWon(key) ==
    LET history == redisPlayer[key].guessesHistory
    IN  /\ Len(history) >= 1
        /\ history[Len(history)] = TargetOf(key)

\* the session is terminal by a loss: ten guesses, none of them the target
SessionLost(key) ==
    LET history == redisPlayer[key].guessesHistory
    IN  /\ Len(history) = MaxGuesses
        /\ TargetOf(key) \notin Range(history)

\* C21: in every session stored while the handler serves one request at a
\* time, an active session (solved not set) has fewer than 10 guesses and
\* none of them is the target; a terminal session either ends with the
\* target (won) or has exactly 10 guesses without the target (lost); no
\* session has more than 10 guesses.
C21_SerialSessionIsWellFormed ==
    \A key \in StoredSessions :
        LET session == redisPlayer[key]
            history == session.guessesHistory
        IN  /\ key[1] \in DOMAIN redisTarget
            /\ Len(history) <= MaxGuesses
            /\ ~Solved(session) =>
                  /\ TargetOf(key) \notin Range(history)
                  /\ Len(history) < MaxGuesses
            /\ Solved(session) => SessionWon(key) \/ SessionLost(key)

\* a session lost with its tenth wrong guess is stored
C21_Witness ==
    \E key \in StoredSessions :
        /\ Solved(redisPlayer[key])
        /\ SessionLost(key)
        /\ ~SessionWon(key)

\* a session won with its tenth guess is stored
C21_WonWitness ==
    \E key \in StoredSessions :
        /\ Solved(redisPlayer[key])
        /\ SessionWon(key)
        /\ Len(redisPlayer[key].guessesHistory) = MaxGuesses

\* an active session with nine wrong guesses is stored
C21_ActiveWitness ==
    \E key \in StoredSessions :
        /\ ~Solved(redisPlayer[key])
        /\ Len(redisPlayer[key].guessesHistory) = MaxGuesses - 1

\* C22: in every session stored while the handler serves one request at a
\* time, an active session has as many hints as guesses, and a terminal
\* session has one hint fewer than guesses (its final guess got no hint).
C22_HintsTrackGuesses ==
    \A key \in StoredSessions :
        LET session == redisPlayer[key]
        IN  IF Solved(session)
            THEN Len(session.usedHints) = Len(session.guessesHistory) - 1
            ELSE Len(session.usedHints) = Len(session.guessesHistory)

\* a terminal session with ten guesses and nine hints is stored
C22_Witness ==
    \E key \in StoredSessions :
        /\ Solved(redisPlayer[key])
        /\ Len(redisPlayer[key].guessesHistory) = MaxGuesses
        /\ Len(redisPlayer[key].usedHints) = MaxGuesses - 1

\* an active session with nine guesses and nine hints, the sentinel among
\* them, is stored
C22_ActiveWitness ==
    \E key \in StoredSessions :
        /\ ~Solved(redisPlayer[key])
        /\ Len(redisPlayer[key].guessesHistory) = MaxGuesses - 1
        /\ Len(redisPlayer[key].usedHints) = MaxGuesses - 1
        /\ unknown \in Range(redisPlayer[key].usedHints)

\* a session won with its first guess is stored: one guess, no hint
C22_FirstGuessWinsWitness ==
    \E key \in StoredSessions :
        /\ Solved(redisPlayer[key])
        /\ redisPlayer[key].guessesHistory = <<TargetOf(key)>>
        /\ redisPlayer[key].usedHints = << >>

====
